---- MODULE Spec2Model ----
(***************************************************************************)
(* Model of cabreaich_common/clients.py: the async HTTP clients            *)
(* (AsyncBaseClient and the Integration / Speech / QLogic clients), the    *)
(* response handling of _handle_response, and the exceptions they raise.   *)
(*                                                                         *)
(* Text (a Python str) is a sequence of one-character strings.  A JSON     *)
(* value is a tagged record:                                               *)
(*   [t |-> "null"]            None                                        *)
(*   [t |-> "bool", b |-> ..]  True / False                                *)
(*   [t |-> "num",  n |-> ..]  an int                                      *)
(*   [t |-> "str",  s |-> ..]  a str                                       *)
(*   [t |-> "arr",  a |-> ..]  a list                                      *)
(*   [t |-> "obj",  o |-> ..]  a dict, as a function from keys to values   *)
(* An Optional[int] (APIError.status_code) is the set of its values: {}    *)
(* for None, {503} for 503.                                                *)
(***************************************************************************)
EXTENDS Integers, Sequences, FiniteSets, TLC

\* ---------------------------------------------------------------- text

Q == "\""

Min(a, b) == IF a < b THEN a ELSE b

\* s[:n]
Take(s, n) == SubSeq(s, 1, Min(n, Len(s)))

\* sub in s
Contains(s, sub) ==
    \E i \in 0..(Len(s) - Len(sub)) : SubSeq(s, i + 1, i + Len(sub)) = sub

\* s.startswith(p)
StartsWith(s, p) == Len(p) <= Len(s) /\ SubSeq(s, 1, Len(p)) = p

Repeat(c, n) == [i \in 1..n |-> c]

Quoted(w) == <<Q>> \o w \o <<Q>>

\* -------------------------------------------------- response.json()

Whitespace == {" ", "\n", "\t", "\r"}

Digits == {"0", "1", "2", "3", "4", "5", "6", "7", "8", "9"}

DigitValue(c) ==
    CASE c = "0" -> 0 [] c = "1" -> 1 [] c = "2" -> 2 [] c = "3" -> 3
      [] c = "4" -> 4 [] c = "5" -> 5 [] c = "6" -> 6 [] c = "7" -> 7
      [] c = "8" -> 8 [] c = "9" -> 9

JNull == [t |-> "null"]
JBool(b) == [t |-> "bool", b |-> b]
JNum(n) == [t |-> "num", n |-> n]
JStr(s) == [t |-> "str", s |-> s]
JArr(a) == [t |-> "arr", a |-> a]
JObj(o) == [t |-> "obj", o |-> o]

EmptyDict == [k \in {} |-> JNull]

\* d[key] = val on a dict: a repeated key keeps the last value
DictSet(d, key, val) ==
    [k \in (DOMAIN d) \cup {key} |-> IF k = key THEN val ELSE d[k]]

\* A parse step's result: the value and the index after it, or a failure.
Parsed(v, i) == [ok |-> TRUE, val |-> v, pos |-> i]
ParseFail == [ok |-> FALSE, val |-> JNull, pos |-> 0]

RECURSIVE SkipWs(_, _)
SkipWs(s, i) ==
    IF i <= Len(s) /\ s[i] \in Whitespace THEN SkipWs(s, i + 1) ELSE i

\* index of the closing quote of a string opened before i, 0 when none;
\* the bodies of this model hold no backslash escapes or control characters
RECURSIVE ScanString(_, _)
ScanString(s, i) ==
    IF i > Len(s) THEN 0
    ELSE IF s[i] = Q THEN i
    ELSE IF s[i] = "\\" THEN 0
    ELSE ScanString(s, i + 1)

ParseString(s, i) ==
    IF i > Len(s) \/ s[i] # Q THEN ParseFail
    ELSE LET j == ScanString(s, i + 1)
         IN IF j = 0 THEN ParseFail
            ELSE Parsed(JStr(SubSeq(s, i + 1, j - 1)), j + 1)

RECURSIVE ScanDigits(_, _, _)
ScanDigits(s, i, acc) ==
    IF i <= Len(s) /\ s[i] \in Digits
    THEN ScanDigits(s, i + 1, 10 * acc + DigitValue(s[i]))
    ELSE Parsed(JNum(acc), i)

\* an integer literal: -?(0|[1-9][0-9]*)
ParseNumber(s, i) ==
    LET neg == i <= Len(s) /\ s[i] = "-"
        j == IF neg THEN i + 1 ELSE i
    IN IF j > Len(s) \/ s[j] \notin Digits THEN ParseFail
       ELSE IF s[j] = "0" THEN Parsed(JNum(0), j + 1)
       ELSE LET r == ScanDigits(s, j, 0)
            IN IF neg THEN Parsed(JNum(0 - r.val.n), r.pos) ELSE r

ParseLiteral(s, i) ==
    IF StartsWith(SubSeq(s, i, Len(s)), <<"t", "r", "u", "e">>)
    THEN Parsed(JBool(TRUE), i + 4)
    ELSE IF StartsWith(SubSeq(s, i, Len(s)), <<"f", "a", "l", "s", "e">>)
    THEN Parsed(JBool(FALSE), i + 5)
    ELSE IF StartsWith(SubSeq(s, i, Len(s)), <<"n", "u", "l", "l">>)
    THEN Parsed(JNull, i + 4)
    ELSE ParseFail

RECURSIVE ParseValue(_, _)
RECURSIVE ParseMembers(_, _, _)
RECURSIVE ParseElements(_, _, _)

\* the members of an object after "{" or ",": "key" : value, then "," or "}"
ParseMembers(s, i, acc) ==
    LET k == ParseString(s, SkipWs(s, i))
        c == SkipWs(s, k.pos)
        v == ParseValue(s, SkipWs(s, c + 1))
        e == SkipWs(s, v.pos)
    IN IF ~k.ok THEN ParseFail
       ELSE IF c > Len(s) \/ s[c] # ":" THEN ParseFail
       ELSE IF ~v.ok THEN ParseFail
       ELSE IF e > Len(s) THEN ParseFail
       ELSE IF s[e] = "}" THEN Parsed(JObj(DictSet(acc, k.val.s, v.val)), e + 1)
       ELSE IF s[e] = "," THEN ParseMembers(s, e + 1, DictSet(acc, k.val.s, v.val))
       ELSE ParseFail

\* the elements of an array after "[" or ",": value, then "," or "]"
ParseElements(s, i, acc) ==
    LET v == ParseValue(s, SkipWs(s, i))
        e == SkipWs(s, v.pos)
    IN IF ~v.ok THEN ParseFail
       ELSE IF e > Len(s) THEN ParseFail
       ELSE IF s[e] = "]" THEN Parsed(JArr(Append(acc, v.val)), e + 1)
       ELSE IF s[e] = "," THEN ParseElements(s, e + 1, Append(acc, v.val))
       ELSE ParseFail

ParseValue(s, i) ==
    IF i > Len(s) THEN ParseFail
    ELSE IF s[i] = "{"
    THEN LET j == SkipWs(s, i + 1)
         IN IF j <= Len(s) /\ s[j] = "}" THEN Parsed(JObj(EmptyDict), j + 1)
            ELSE ParseMembers(s, j, EmptyDict)
    ELSE IF s[i] = "["
    THEN LET j == SkipWs(s, i + 1)
         IN IF j <= Len(s) /\ s[j] = "]" THEN Parsed(JArr(<<>>), j + 1)
            ELSE ParseElements(s, j, <<>>)
    ELSE IF s[i] = Q THEN ParseString(s, i)
    ELSE IF s[i] = "-" \/ s[i] \in Digits THEN ParseNumber(s, i)
    ELSE ParseLiteral(s, i)

\* json.loads(text): one value, whitespace around it, nothing after it.
\* ok = FALSE stands for json.JSONDecodeError.
JsonLoads(text) ==
    LET r == ParseValue(text, SkipWs(text, 1))
    IN IF r.ok /\ SkipWs(text, r.pos) = Len(text) + 1 THEN r ELSE ParseFail


\* ------------------------------------------------------------ responses

\* the slice bound of e.response.text[:200]
TruncLen == 200

\* httpx.Response: the status code and the decoded body text
Response(status, text) == [status_code |-> status, text |-> text]

\* httpx.Response.reason_phrase
ReasonPhrase(status) ==
    CASE status = 200 -> "OK"
      [] status = 204 -> "No Content"
      [] status = 302 -> "Found"
      [] status = 304 -> "Not Modified"
      [] status = 400 -> "Bad Request"
      [] status = 404 -> "Not Found"
      [] status = 500 -> "Internal Server Error"
      [] status = 503 -> "Service Unavailable"
      [] OTHER -> ""

\* httpx.Response.raise_for_status() raises httpx.HTTPStatusError unless
\* Response.is_success, that is unless 200 <= status_code <= 299: in every
\* httpx release that accepts follow_redirects (the keyword __init__
\* passes) it raises for 1xx and 3xx as well as for 4xx and 5xx.
RaisesForStatusMutServerOnly(status) == status >= 500
RaisesForStatus(status) == ~(200 <= status /\ status <= 299)

\* -------------------------------------------------------------- exceptions

\* An exception: its class, its message (the f-string's parts: the text
\* before the interpolations, the interpolated status code and reason
\* phrase when the message has them, the interpolated text), the
\* status_code attribute, and the class of the exception it was raised from.
Message(prefix, code, reason, text) ==
    [prefix |-> prefix, code |-> code, reason |-> reason, text |-> text]

Exception(cls, message, status_code, cause) ==
    [cls |-> cls, message |-> message, status_code |-> status_code, cause |-> cause]

NoException == Exception("", Message("", {}, "", <<>>), {}, "")

\* exceptions.APIError(message, status_code=None)
APIError(message, status_code, cause) ==
    Exception("APIError", message, status_code, cause)

\* str(e) of the json.JSONDecodeError raised by response.json()
JSONDecodeErrorText == <<"JSONDecodeError">>

\* str(e) of the pydantic ValidationError raised by model_validate
PydanticErrorText(field) == <<"ValidationError", field>>

\* --------------------------------------------- models.QLogicResponse

\* QLogicResponse.model_validate(v): v must be a dict; "type" is required
\* and a str; "payload" is a dict and defaults to {}; every other key is
\* kept (extra = "allow").  field names the first failing field.
TypeKey == <<"t", "y", "p", "e">>
PayloadKey == <<"p", "a", "y", "l", "o", "a", "d">>

QLogicResponse(type, payload, extra) ==
    [t |-> "QLogicResponse", type |-> type, payload |-> payload, extra |-> extra]

Validated(v) == [ok |-> TRUE, val |-> v, field |-> ""]
Invalid(field) == [ok |-> FALSE, val |-> JNull, field |-> field]

ModelValidateMutDropPayload(v) ==
    IF v.t = "obj" /\ TypeKey \in DOMAIN v.o /\ v.o[TypeKey].t = "str"
    THEN Validated(QLogicResponse(v.o[TypeKey].s, EmptyDict, EmptyDict))
    ELSE Invalid("type")

ModelValidate(v) ==
    IF v.t # "obj" THEN Invalid("model")
    ELSE IF TypeKey \notin DOMAIN v.o THEN Invalid("type")
    ELSE IF v.o[TypeKey].t # "str" THEN Invalid("type")
    ELSE IF PayloadKey \in DOMAIN v.o /\ v.o[PayloadKey].t # "obj" THEN Invalid("payload")
    ELSE Validated(QLogicResponse(
             v.o[TypeKey].s,
             IF PayloadKey \in DOMAIN v.o THEN v.o[PayloadKey].o ELSE EmptyDict,
             [k \in (DOMAIN v.o) \ {TypeKey, PayloadKey} |-> v.o[k]]))

\* ------------------------------------- AsyncBaseClient._handle_response

\* What a call ends with: a returned value or a raised exception, and the
\* number of log.error / log.exception records written on the way.
Returned(v, logs) == [raised |-> FALSE, value |-> v, exc |-> NoException, logs |-> logs]
Raised(e, logs) == [raised |-> TRUE, value |-> JNull, exc |-> e, logs |-> logs]

\* except httpx.HTTPStatusError (lines 80-86)
StatusFailureMutNoText(response) ==
    Raised(APIError(Message("API request failed: ",
                            {response.status_code},
                            ReasonPhrase(response.status_code),
                            <<>>),
                    {response.status_code}, "HTTPStatusError"), 1)
StatusFailureMutNoSlice(response) ==
    Raised(APIError(Message("API request failed: ",
                            {response.status_code},
                            ReasonPhrase(response.status_code),
                            response.text),
                    {response.status_code}, "HTTPStatusError"), 1)
StatusFailure(response) ==
    Raised(APIError(Message("API request failed: ",
                            {response.status_code},
                            ReasonPhrase(response.status_code),
                            Take(response.text, TruncLen)),
                    {response.status_code}, "HTTPStatusError"), 1)

\* except Exception (lines 91-94)
HandlingFailure(response, text, cause) ==
    Raised(APIError(Message("Error handling response: ", {}, "", text),
                    {response.status_code}, cause), 1)

\* _handle_response(response, response_model); schema is TRUE when
\* response_model=QLogicResponse and FALSE when it is None
HandleResponse(response, schema) ==
    IF RaisesForStatus(response.status_code) THEN StatusFailure(response)
    ELSE LET j == JsonLoads(response.text)
         IN IF schema
            THEN IF ~j.ok
                 THEN HandlingFailure(response, JSONDecodeErrorText, "JSONDecodeError")
                 ELSE LET m == ModelValidate(j.val)
                      IN IF m.ok THEN Returned(m.val, 0)
                         ELSE HandlingFailure(response, PydanticErrorText(m.field),
                                              "ValidationError")
            ELSE IF j.ok THEN Returned(j.val, 0)
                 ELSE Returned(JStr(response.text), 0)


\* ------------------------------------------------------------ the inputs

\* bounds of the model
MaxCloses == 3
MaxRequests == 2

\* the service clients, one handle of each class
Handles == {"integration", "speech", "qlogic"}

\* the connection pools (httpx.AsyncClient): "shared" is created by the
\* caller and passed as client=; pool h is the one handle h creates
Pools == {"shared"} \cup Handles

Tasks == {"t1"}

RoutingBody ==
    <<"{">> \o Quoted(TypeKey) \o <<":">> \o Quoted(<<"p", "r", "o", "m", "p", "t">>)
    \o <<",">> \o Quoted(PayloadKey) \o <<":", "{">> \o Quoted(<<"t", "e", "x", "t">>)
    \o <<":">> \o Quoted(<<"h", "i">>) \o <<"}", "}">>

Overloaded == <<"o", "v", "e", "r", "l", "o", "a", "d", "e", "d">>

\* {"payload": {}}
MissingTypeBody == <<"{">> \o Quoted(PayloadKey) \o <<":", " ", "{", "}", "}">>

\* {"type":"x","payload":[1]}
ListPayloadBody ==
    <<"{">> \o Quoted(TypeKey) \o <<":">> \o Quoted(<<"x">>) \o <<",">>
    \o Quoted(PayloadKey) \o <<":", "[", "1", "]", "}">>

\* a text one character longer than the slice bound
LongBody == <<"a">> \o Repeat("x", TruncLen)
\* a body of exactly as many characters as the excerpt keeps
ExactBody == <<"b">> \o Repeat("x", TruncLen - 1)

Bodies == {RoutingBody, Overloaded, MissingTypeBody, ListPayloadBody, LongBody, ExactBody}

Statuses == {200, 302, 400, 503}

Actions == {"pause", "resume", "jump"}

\* the network-level failures of a request (subclasses of httpx.RequestError)
ConnectError ==
    Exception("ConnectError", Message("", {}, "", <<"connection refused">>), {}, "")
ReadTimeout ==
    Exception("ReadTimeout", Message("", {}, "", <<"timed out">>), {}, "")
RequestErrors == {ConnectError, ReadTimeout}

\* httpx raises this from send() on a closed client, before any I/O
ClientClosedError ==
    Exception("RuntimeError",
              Message("", {}, "", <<"Cannot send a request, as the client has been closed.">>),
              {}, "")

\* asyncio.CancelledError, a BaseException
CancelledError == Exception("CancelledError", Message("", {}, "", <<>>), {}, "")

\* ------------------------------------------------------------- the state

VARIABLES
    client,        \* self._client of each handle: the pool it uses
    should_close,  \* self._should_close_client of each handle
    pool,          \* each pool: its state, the requests sent over it, its teardowns
    closes,        \* the close() calls each handle has completed
    call           \* each caller task: the operation it runs and how it ended,
                   \* the handle whose async with block it is in

vars == <<client, should_close, pool, closes, call>>

NoResponse == Response(0, <<>>)
NoOutcome == Returned(JNull, 0)

Idle ==
    [pc |-> "idle", h |-> "", op |-> "", action |-> "", path |-> <<>>,
     response |-> NoResponse, stage |-> "", inner |-> NoOutcome, outcome |-> NoOutcome,
     scope |-> "", after |-> NoOutcome, url |-> <<>>]

\* AsyncBaseClient.__init__(base_url, timeout, client): given is the pool
\* passed as client=, or "" for client=None
InitShouldCloseMutAlways(given) == TRUE
InitShouldClose(given) == given = ""

InitClient(h, given) == IF given # "" THEN given ELSE h

\* Init is the state after the clients are constructed: each handle was
\* given the caller's shared pool, the pool of a handle that created its
\* own, or no pool.
Init ==
    /\ \E given \in [Handles -> {""} \cup Pools] :
          /\ \A h \in Handles :
                given[h] \in Handles => (given[h] # h /\ given[given[h]] = "")
          /\ client = [h \in Handles |-> InitClient(h, given[h])]
          /\ should_close = [h \in Handles |-> InitShouldClose(given[h])]
          /\ pool = [p \in Pools |->
                        [state |-> IF p = "shared" \/ given[p] = "" THEN "open" ELSE "none",
                         requests |-> 0, teardowns |-> 0]]
    /\ closes = [h \in Handles |-> 0]
    /\ call = [t \in Tasks |-> Idle]


\* --------------------------------------------------- AsyncBaseClient.close

\* httpx.AsyncClient.aclose(): tears the transport down unless the client
\* is closed already
Aclose(p) ==
    IF p.state # "closed"
    THEN [p EXCEPT !.state = "closed", !.teardowns = @ + 1]
    ELSE p

\* close(): awaits self._client.aclose() when this handle created the pool
CloseEffectMutNever(h) == pool
CloseEffectMutIgnoreFlag(h) == [pool EXCEPT ![client[h]] = Aclose(@)]
CloseEffect(h) ==
    IF should_close[h]
    THEN [pool EXCEPT ![client[h]] = Aclose(@)]
    ELSE pool

TotalCloses == closes["integration"] + closes["speech"] + closes["qlogic"]

\* close(), and __aexit__, which only awaits close()
Close(h) ==
    /\ TotalCloses < MaxCloses
    /\ pool' = CloseEffect(h)
    /\ closes' = [closes EXCEPT ![h] = @ + 1]
    /\ UNCHANGED <<client, should_close, call>>

\* ------------------------------------------------------ the operations

SessionId == "s1"

ValueError ==
    Exception("ValueError",
              Message("Invalid action for control_audio, must be 'pause' or 'resume'",
                      {}, "", <<>>),
              {}, "")

\* action in ["pause", "resume"]
ValidActionMutAny(action) == TRUE
ValidAction(action) == action \in {"pause", "resume"}

UnexpectedPrefix(op) ==
    CASE op = "post_event" -> "Unexpected error posting event: "
      [] op = "control_audio" -> "Unexpected error controlling speech audio: "
      [] op = "route_turn" -> "Unexpected error routing turn: "

\* the except clauses of an operation around its try body, whose outcome is
\* inner: an APIError is re-raised, any other Exception is logged and
\* wrapped in an APIError without status code, a BaseException that is no
\* Exception (CancelledError) passes through, a value is returned
GuardedMutNoCatchAll(op, inner) == inner
Guarded(op, inner) ==
    IF ~inner.raised THEN inner
    ELSE IF inner.exc.cls = "APIError" THEN inner
    ELSE IF inner.exc.cls = "CancelledError" THEN inner
    ELSE Raised(APIError(Message(UnexpectedPrefix(op), {}, "", inner.exc.message.text),
                         {}, inner.exc.cls),
                inner.logs + 1)

TotalRequests ==
    pool["shared"].requests + pool["integration"].requests
    + pool["speech"].requests + pool["qlogic"].requests

\* self.base_url of handle h, the base URL for its target service
BaseUrl(h) == <<"http://", h>>

\* the base_url the caller built the shared httpx.AsyncClient with
SharedBaseUrl == <<"http://", "gateway">>

\* the base_url of the httpx.AsyncClient behind pool p: a pool that handle
\* p created has httpx.AsyncClient(base_url=base_url, ...)
PoolBaseUrl(p) == IF p \in Handles THEN BaseUrl(p) ELSE SharedBaseUrl

\* httpx merges a relative request URL with the base_url of the client
\* that sends it
MergeUrl(base, path) == base \o path

\* the URL of self._client.post(path, ...) sent by handle h
RequestUrl(h, path) == MergeUrl(PoolBaseUrl(client[h]), path)

\* response = await self._client.post(path, ...): on a closed pool httpx
\* raises before sending; otherwise the request goes out and the task
\* suspends until Deliver, DispatchFails or Cancel
Post(t, h, op, action, path) ==
    LET started == [Idle EXCEPT !.h = h, !.op = op, !.action = action, !.path = path,
                                !.scope = call[t].scope,
                                !.url = RequestUrl(h, path)]
    IN IF pool[client[h]].state # "open"
       THEN /\ call' = [call EXCEPT ![t] =
                   [started EXCEPT !.pc = "done", !.stage = "dispatch",
                                   !.inner = Raised(ClientClosedError, 0),
                                   !.outcome = Guarded(op, Raised(ClientClosedError, 0))]]
            /\ UNCHANGED pool
       ELSE /\ TotalRequests < MaxRequests
            /\ call' = [call EXCEPT ![t] = [started EXCEPT !.pc = "dispatch"]]
            /\ pool' = [pool EXCEPT ![client[h]].requests = @ + 1]

\* AsyncIntegrationClient.post_event(event_data)
PostEvent(t) ==
    /\ call[t].pc = "idle"
    /\ Post(t, "integration", "post_event", "", <<"/integration/event">>)
    /\ UNCHANGED <<client, should_close, closes>>

\* AsyncSpeechApiClient.control_audio(session_id, action)
ControlAudio(t, action) ==
    /\ call[t].pc = "idle"
    /\ IF ~ValidAction(action)
       THEN /\ call' = [call EXCEPT ![t] =
                   [Idle EXCEPT !.pc = "done", !.h = "speech", !.op = "control_audio",
                                !.action = action, !.stage = "validate",
                                !.scope = call[t].scope,
                                !.inner = Raised(ValueError, 0),
                                !.outcome = Raised(ValueError, 0)]]
            /\ UNCHANGED pool
       ELSE Post(t, "speech", "control_audio", action,
                 <<"/session/", SessionId, "/audio/", action>>)
    /\ UNCHANGED <<client, should_close, closes>>

\* AsyncQLogicClient.route_turn(turn_input)
RouteTurn(t) ==
    /\ call[t].pc = "idle"
    /\ Post(t, "qlogic", "route_turn", "", <<"/qlogic/route_turn">>)
    /\ UNCHANGED <<client, should_close, closes>>

\* the response model an operation passes to _handle_response
UsesSchema(op) == op = "route_turn"

\* a version that waits to retry after 503 and is never resumed
DeliverMutBackoff(t, status, text) ==
    /\ call[t].pc = "dispatch"
    /\ call' = [call EXCEPT ![t].pc = IF status = 503 THEN "backoff" ELSE "done",
                             ![t].response = Response(status, text)]
    /\ UNCHANGED <<client, should_close, pool, closes>>

\* the response arrives: return await self._handle_response(response, ...)
\* and the operation's except clauses, all without a suspension point
Deliver(t, status, text) ==
    /\ call[t].pc = "dispatch"
    /\ LET response == Response(status, text)
           hr == HandleResponse(response, UsesSchema(call[t].op))
       IN call' = [call EXCEPT ![t] =
              [@ EXCEPT !.pc = "done", !.response = response,
                        !.stage = IF hr.raised THEN "decode" ELSE "",
                        !.inner = hr,
                        !.outcome = Guarded(call[t].op, hr)]]
    /\ UNCHANGED <<client, should_close, pool, closes>>

\* a version that closes the client after a network error
DispatchFailsMutClosesPool(t, e) ==
    /\ call[t].pc = "dispatch"
    /\ call' = [call EXCEPT ![t] =
           [@ EXCEPT !.pc = "done", !.stage = "dispatch",
                     !.inner = Raised(e, 0),
                     !.outcome = Guarded(call[t].op, Raised(e, 0))]]
    /\ pool' = [pool EXCEPT ![client[call[t].h]] = Aclose(@)]
    /\ UNCHANGED <<client, should_close, closes>>

\* the awaited post raises a network-level error
DispatchFails(t, e) ==
    /\ call[t].pc = "dispatch"
    /\ call' = [call EXCEPT ![t] =
           [@ EXCEPT !.pc = "done", !.stage = "dispatch",
                     !.inner = Raised(e, 0),
                     !.outcome = Guarded(call[t].op, Raised(e, 0))]]
    /\ UNCHANGED <<client, should_close, pool, closes>>

\* the caller cancels the task while it awaits the post
Cancel(t) ==
    /\ call[t].pc = "dispatch"
    /\ call' = [call EXCEPT ![t] =
           [@ EXCEPT !.pc = "done", !.stage = "cancel",
                     !.inner = Raised(CancelledError, 0),
                     !.outcome = Guarded(call[t].op, Raised(CancelledError, 0))]]
    /\ UNCHANGED <<client, should_close, pool, closes>>

\* the caller has the operation's result; the task may start another
Return(t) ==
    /\ call[t].pc = "done"
    /\ call' = [call EXCEPT ![t] = [Idle EXCEPT !.scope = call[t].scope]]
    /\ UNCHANGED <<client, should_close, pool, closes>>

Next ==
    \/ \E h \in Handles : Close(h)
    \/ \E t \in Tasks : PostEvent(t)
    \/ \E t \in Tasks, action \in Actions : ControlAudio(t, action)
    \/ \E t \in Tasks : RouteTurn(t)
    \/ \E t \in Tasks, status \in Statuses, text \in Bodies : Deliver(t, status, text)
    \/ \E t \in Tasks, e \in RequestErrors : DispatchFails(t, e)
    \/ \E t \in Tasks : Cancel(t)
    \/ \E t \in Tasks : Return(t)

Spec == Init /\ [][Next]_vars

\* ------------------------------------------- async with client: ...

\* async def __aenter__(self): return self
Aenter(t, h) ==
    /\ call[t].pc = "idle"
    /\ call[t].scope = ""
    /\ call' = [call EXCEPT ![t].scope = h]
    /\ UNCHANGED <<client, should_close, pool, closes>>

\* __aexit__ returns None: the exception of the block is not suppressed
AexitSuppressesMutTrue == TRUE
AexitSuppresses == FALSE

\* what the statement after the block sees, body being how the block ended
AexitOutcome(body) ==
    IF body.raised /\ ~AexitSuppresses THEN body ELSE Returned(JNull, body.logs)

\* the pools after __aexit__ of handle h: await self.close()
AexitEffectMutSkip(h) == pool
AexitEffect(h) == CloseEffect(h)

\* the block of task t ends, with the value or the exception of its last
\* operation or without having failed, and __aexit__ runs
Aexit(t) ==
    /\ call[t].scope # ""
    /\ call[t].pc \in {"idle", "done"}
    /\ TotalCloses < MaxCloses
    /\ pool' = AexitEffect(call[t].scope)
    /\ closes' = [closes EXCEPT ![call[t].scope] = @ + 1]
    /\ call' = [call EXCEPT ![t] =
           [@ EXCEPT !.pc = "exited", !.after = AexitOutcome(call[t].outcome)]]
    /\ UNCHANGED <<client, should_close>>

\* the statement after the block runs, or the exception leaves the caller
Leave(t) ==
    /\ call[t].pc = "exited"
    /\ call' = [call EXCEPT ![t] = Idle]
    /\ UNCHANGED <<client, should_close, pool, closes>>

\* each handle created its pool or was given the caller's
InitScope ==
    /\ Init
    /\ \A h \in Handles : client[h] \in {h, "shared"}

NextScope ==
    \/ Next
    \/ \E t \in Tasks, h \in Handles : Aenter(t, h)
    \/ \E t \in Tasks : Aexit(t)
    \/ \E t \in Tasks : Leave(t)

SpecScope == InitScope /\ [][NextScope]_vars

\* ------------------------------------------------- the post always ends

\* The awaited post ends: the server answers, or httpx raises a network
\* error, at the latest the timeout the pool was built with (timeout=timeout,
\* 10 seconds unless given; a borrowed pool has the caller's).
PostEnds ==
    \/ \E t \in Tasks, status \in Statuses, text \in Bodies : Deliver(t, status, text)
    \/ \E t \in Tasks, e \in RequestErrors : DispatchFails(t, e)

SpecLive == InitScope /\ [][Next]_vars /\ WF_vars(PostEnds)


\* ------------------------------------------- two tasks on one event loop

\* two caller tasks of one asyncio event loop
Concurrent == {"t1", "t2"}

\* the statuses and bodies the two tasks are answered with
TaskStatuses == {200, 503}
TaskBodies == {RoutingBody, Overloaded}

\* the await expressions in the body of _handle_response that hand control
\* to the event loop: raise_for_status(), response.json(), response.text
\* and model_validate() are plain calls, the body awaits nothing
HandleResponseAwaitsMutAread == {"response.aread()"}
HandleResponseAwaits == {}

\* task t was resumed with its response and has not returned or raised yet
Handling(t) == call[t].pc = "received"

\* no task holds the event loop: a task that was resumed runs until it
\* returns, raises or awaits something that suspends it
LoopFree == \A u \in Concurrent : Handling(u) => HandleResponseAwaits # {}

\* the event loop resumes task t with the response of its post
Receive(t, status, text) ==
    /\ call[t].pc = "dispatch"
    /\ call' = [call EXCEPT ![t].pc = "received",
                             ![t].response = Response(status, text)]
    /\ UNCHANGED <<client, should_close, pool, closes>>

\* return await self._handle_response(response, ...) and the operation's
\* except clauses
Handle(t) ==
    /\ Handling(t)
    /\ LET hr == HandleResponse(call[t].response, UsesSchema(call[t].op))
       IN call' = [call EXCEPT ![t] =
              [@ EXCEPT !.pc = "done",
                        !.stage = IF hr.raised THEN "decode" ELSE "",
                        !.inner = hr,
                        !.outcome = Guarded(call[t].op, hr)]]
    /\ UNCHANGED <<client, should_close, pool, closes>>

\* the three clients each with a pool of their own, or all three on the
\* caller's pool, and two idle tasks
InitTasks ==
    /\ \E given \in {[h \in Handles |-> ""], [h \in Handles |-> "shared"]} :
          /\ client = [h \in Handles |-> InitClient(h, given[h])]
          /\ should_close = [h \in Handles |-> InitShouldClose(given[h])]
          /\ pool = [p \in Pools |->
                        [state |-> IF p = "shared" \/ given[p] = "" THEN "open" ELSE "none",
                         requests |-> 0, teardowns |-> 0]]
    /\ closes = [h \in Handles |-> 0]
    /\ call = [t \in Concurrent |-> Idle]

NextTasks ==
    \/ \E h \in Handles : LoopFree /\ Close(h)
    \/ \E t \in Concurrent : LoopFree /\ PostEvent(t)
    \/ \E t \in Concurrent, action \in Actions : LoopFree /\ ControlAudio(t, action)
    \/ \E t \in Concurrent : LoopFree /\ RouteTurn(t)
    \/ \E t \in Concurrent, status \in TaskStatuses, text \in TaskBodies :
           LoopFree /\ Receive(t, status, text)
    \/ \E t \in Concurrent : Handle(t)
    \/ \E t \in Concurrent, e \in RequestErrors : LoopFree /\ DispatchFails(t, e)
    \/ \E t \in Concurrent : LoopFree /\ Cancel(t)
    \/ \E t \in Concurrent : LoopFree /\ Return(t)

SpecTasks == InitTasks /\ [][NextTasks]_vars

\* ------------------------------------------------------ the error kinds

\* The library has one exception class for every failure of a request,
\* APIError; the kinds of the taxonomy are told apart by the except clause
\* that raised it.
IsStatusError(e) ==
    e.cls = "APIError" /\ e.message.prefix = "API request failed: "

IsDecodeError(e) ==
    e.cls = "APIError" /\ e.message.prefix = "Error handling response: "

\* the kind meant for network errors: except httpx.RequestError (lines 87-90)
IsTransportError(e) ==
    e.cls = "APIError" /\ e.message.prefix = "HTTP request error: "

IsUnexpectedError(e, op) ==
    e.cls = "APIError" /\ e.message.prefix = UnexpectedPrefix(op)

\* a handle given a pool at construction (client=...) borrows it
Borrowed(h) == client[h] # h

\* a response was received by the call of task t
Received(t) == call[t].pc = "done" /\ call[t].stage \in {"", "decode"}

InvalidAction(action) == action \notin {"pause", "resume"}

\* --------------------------------------------------------------- claims

\* C1: for a handle constructed with a borrowed pool, every close() (and
\* scope exit) is a no-op on the pools: it tears no pool down, however many
\* times it is called, and the caller's shared pool, which only borrowers
\* use, is open in every reachable state.
C1_BorrowedCloseIsNoOp ==
    /\ [](pool["shared"].state = "open" /\ pool["shared"].teardowns = 0)
    /\ [][\A h \in Handles :
             (Borrowed(h) /\ closes'[h] # closes[h]) => pool' = pool]_vars

C1_Witness ==
    \E h \in Handles :
        /\ Borrowed(h)
        /\ closes[h] = 2
        /\ pool[client[h]].state = "open"
        /\ pool[client[h]].teardowns = 0

\* C2: for a handle that created its own pool, after one or more close()
\* calls the pool is closed and was torn down exactly once: the first close
\* tears it down, every later one tears nothing down.
C2_OwnedClosedOnce ==
    \A h \in Handles :
        (~Borrowed(h) /\ closes[h] >= 1)
            => (pool[h].state = "closed" /\ pool[h].teardowns = 1)

C2_Witness ==
    \E h \in Handles :
        ~Borrowed(h) /\ closes[h] = 2 /\ pool[h].state = "closed" /\ pool[h].teardowns = 1


\* C3: a control_audio call whose action is neither "pause" nor "resume"
\* sends nothing: no step of such a call changes the request counter of any
\* pool, and the call never waits on a request.
C3_InvalidActionSendsNothing ==
    /\ [](\A t \in Tasks :
             (call[t].pc = "dispatch" /\ call[t].op = "control_audio")
                 => ~InvalidAction(call[t].action))
    /\ [][\A t \in Tasks :
             (call'[t] # call[t] /\ call'[t].op = "control_audio"
                  /\ InvalidAction(call'[t].action))
                 => \A p \in Pools : pool'[p].requests = pool[p].requests]_vars

C3_Witness ==
    \E t \in Tasks :
        /\ call[t].pc = "done"
        /\ call[t].op = "control_audio"
        /\ call[t].action = "jump"
        /\ pool[client["speech"]].state = "open"
        /\ TotalRequests = 0

\* C4 (as claimed): a control_audio call whose action is neither "pause" nor
\* "resume" fails with the library's ValidationError and with no other error.
C4_InvalidActionRaisesValidationError ==
    \A t \in Tasks :
        (call[t].pc = "done" /\ call[t].op = "control_audio"
             /\ InvalidAction(call[t].action))
            => (call[t].outcome.raised /\ call[t].outcome.exc.cls = "ValidationError")

\* C5: for every response with status code >= 400, _handle_response raises
\* the status failure with status_code equal to the response's status code,
\* whatever the body and with or without a response model.
C5_StatusErrorCarriesCode ==
    \A t \in Tasks :
        (Received(t) /\ call[t].response.status_code >= 400)
            => /\ call[t].inner.raised
               /\ IsStatusError(call[t].inner.exc)
               /\ call[t].inner.exc.status_code = {call[t].response.status_code}
               /\ call[t].inner.exc.message.code = {call[t].response.status_code}

\* status 400 with a body that is valid JSON and conforms to the response
\* model, requested with the model: the status check still wins
C5_Witness ==
    \E t \in Tasks :
        /\ Received(t)
        /\ call[t].op = "route_turn"
        /\ call[t].response = Response(400, RoutingBody)
        /\ IsStatusError(call[t].inner.exc)
        /\ call[t].inner.exc.status_code = {400}

\* C6: a QLogic client built on the caller's shared pool whose route_turn is
\* answered 503 with body "overloaded" raises the status failure with
\* status_code 503 and a message containing "overloaded", and the shared
\* pool is open afterwards, also after the client is closed.
C6_Overloaded503 ==
    \A t \in Tasks :
        (Received(t) /\ call[t].op = "route_turn" /\ client["qlogic"] = "shared"
             /\ call[t].response = Response(503, Overloaded))
            => /\ call[t].outcome.raised
               /\ IsStatusError(call[t].outcome.exc)
               /\ call[t].outcome.exc.status_code = {503}
               /\ Contains(call[t].outcome.exc.message.text, Overloaded)
               /\ pool["shared"].state = "open"

C6_Witness ==
    \E t \in Tasks :
        /\ Received(t) /\ call[t].op = "route_turn" /\ client["qlogic"] = "shared"
        /\ call[t].response = Response(503, Overloaded)
        /\ call[t].outcome.exc.status_code = {503}
        /\ closes["qlogic"] = 1
        /\ pool["shared"].state = "open"

\* C7 (as claimed): for every response with status < 400 whose body is not
\* valid JSON, _handle_response called with a response model raises the
\* decode failure.
C7_NonJsonWithSchemaIsDecodeError ==
    \A t \in Tasks :
        (Received(t) /\ call[t].response.status_code < 400
             /\ ~JsonLoads(call[t].response.text).ok /\ UsesSchema(call[t].op))
            => (call[t].inner.raised /\ IsDecodeError(call[t].inner.exc))

\* C8 (as claimed): for every response with status < 400, _handle_response
\* called without a response model raises nothing and returns the parsed
\* JSON value, or the raw text unchanged when the body is not valid JSON.
C8_NoSchemaReturnsJsonOrText ==
    \A t \in Tasks :
        (Received(t) /\ call[t].response.status_code < 400 /\ ~UsesSchema(call[t].op))
            => /\ ~call[t].inner.raised
               /\ call[t].inner.value =
                      IF JsonLoads(call[t].response.text).ok
                      THEN JsonLoads(call[t].response.text).val
                      ELSE JStr(call[t].response.text)

\* C9: route_turn answered with a success status (2xx) and the body
\* {"type":"prompt","payload":{"text":"hi"}} returns a QLogicResponse whose
\* type is "prompt" and whose payload is {"text": "hi"}.
C9_RouteTurnTypedResult ==
    \A t \in Tasks :
        (Received(t) /\ call[t].op = "route_turn"
             /\ call[t].response.status_code \in 200..299
             /\ call[t].response.text = RoutingBody)
            => /\ ~call[t].outcome.raised
               /\ call[t].outcome.value.t = "QLogicResponse"
               /\ call[t].outcome.value.type = <<"p", "r", "o", "m", "p", "t">>
               /\ call[t].outcome.value.payload =
                      (<<"t", "e", "x", "t">> :> JStr(<<"h", "i">>))

C9_Witness ==
    \E t \in Tasks :
        /\ Received(t) /\ call[t].op = "route_turn"
        /\ call[t].response = Response(200, RoutingBody)
        /\ call[t].outcome.value.t = "QLogicResponse"
        /\ DOMAIN call[t].outcome.value.payload = {<<"t", "e", "x", "t">>}


\* C10 (as claimed): whenever the awaited post or _handle_response fails in
\* post_event, control_audio or route_turn, the caller receives that same
\* error unchanged: same class, same status code, same message.
C10_SameErrorUnchanged ==
    \A t \in Tasks :
        (call[t].pc = "done" /\ call[t].stage \in {"dispatch", "decode"}
             /\ call[t].inner.raised)
            => /\ call[t].outcome.raised
               /\ call[t].outcome.exc.cls = call[t].inner.exc.cls
               /\ call[t].outcome.exc.status_code = call[t].inner.exc.status_code
               /\ call[t].outcome.exc.message = call[t].inner.exc.message


\* C11 (as claimed): a network-level failure of the awaited post (connection
\* refused, timeout) reaches the caller of each operation as the transport
\* kind of error, carrying the underlying message and no status code.
C11_NetworkFailureIsTransportError ==
    \A t \in Tasks :
        (call[t].pc = "done" /\ call[t].stage = "dispatch"
             /\ call[t].inner.exc \in RequestErrors)
            => /\ call[t].outcome.raised
               /\ IsTransportError(call[t].outcome.exc)
               /\ call[t].outcome.exc.message.text = call[t].inner.exc.message.text
               /\ call[t].outcome.exc.status_code = {}

\* C12 (as claimed): an operation cancelled while it awaits the post ends by
\* raising the library's error without status code (the transport kind), not
\* a cancellation signal of another class, and the step changes no pool.
C12_CancelRaisesTransportError ==
    \A t \in Tasks :
        (call[t].pc = "done" /\ call[t].stage = "cancel")
            => /\ call[t].outcome.raised
               /\ call[t].outcome.exc.cls = "APIError"
               /\ call[t].outcome.exc.status_code = {}


\* C13: a client used with async with has close() run by __aexit__ when the
\* block ends, normally or with an exception; an exception raised in the
\* block is the one the caller gets after the block; a pool the handle
\* created is closed after the block.
C13_ScopeExitReleases ==
    /\ [](\A t \in Tasks :
              call[t].pc = "exited"
                  => /\ closes[call[t].scope] >= 1
                     /\ ~Borrowed(call[t].scope)
                            => pool[call[t].scope].state = "closed"
                     /\ call[t].outcome.raised
                            => (call[t].after.raised
                                   /\ call[t].after.exc = call[t].outcome.exc))
    /\ [][\A t \in Tasks :
             (call[t].pc # "exited" /\ call'[t].pc = "exited")
                 => /\ closes'[call[t].scope] = closes[call[t].scope] + 1
                    /\ ~Borrowed(call[t].scope)
                           => /\ pool'[call[t].scope].state = "closed"
                              /\ pool'[call[t].scope].teardowns = 1]_vars

\* an owning handle's block ended with the status failure of its operation
C13_Witness ==
    \E t \in Tasks :
        /\ call[t].pc = "exited"
        /\ ~Borrowed(call[t].scope)
        /\ call[t].h = call[t].scope
        /\ call[t].outcome.raised
        /\ IsStatusError(call[t].after.exc)
        /\ closes[call[t].scope] = 1
        /\ pool[call[t].scope].state = "closed"


\* C14 (as claimed): every error an operation raises to its caller for an
\* invalid argument, a failed post, an error status or an unusable body was
\* logged exactly once on its way, never zero times and never twice.
C14_EveryErrorLoggedOnce ==
    \A t \in Tasks :
        (call[t].pc = "done" /\ call[t].outcome.raised
             /\ call[t].stage \in {"validate", "dispatch", "decode"})
            => call[t].outcome.logs = 1

\* C15: a pool used by the handle that created it and by handles that borrow
\* it, whose calls and close() calls interleave: the pool's state changes
\* only in a close() step of the creating handle, from open to closed, and it
\* is torn down at most once; no step of a borrowing handle closes it.
C15_OnlyOwnerClosesSharedPool ==
    /\ [](\A p \in Pools : pool[p].teardowns <= 1)
    /\ [][\A p \in Pools :
             pool'[p].state # pool[p].state
                 => /\ p \in Handles
                    /\ client[p] = p
                    /\ closes'[p] = closes[p] + 1
                    /\ \A b \in Handles \ {p} : closes'[b] = closes[b]
                    /\ pool[p].state = "open"
                    /\ pool'[p].state = "closed"]_vars

\* a pool that carried a request was closed by its owner after a borrower
\* had called close()
C15_Witness ==
    \E h \in Handles, b \in Handles :
        /\ b # h
        /\ client[b] = h
        /\ client[h] = h
        /\ pool[h].requests >= 1
        /\ closes[b] >= 1
        /\ closes[h] >= 1
        /\ pool[h].state = "closed"
        /\ pool[h].teardowns = 1

\* C16: _should_close_client is what __init__ set it to in every reachable
\* state, False exactly when a pool was given, no step changes it, and a
\* close() of a handle whose flag is False tears no pool down.
C16_ShouldCloseFixedAtInit ==
    /\ [](\A h \in Handles : should_close[h] <=> client[h] = h)
    /\ [][should_close' = should_close /\ client' = client]_vars
    /\ [][\A h \in Handles :
             (closes'[h] # closes[h] /\ ~should_close[h])
                 => \A p \in Pools : /\ pool'[p].teardowns = pool[p].teardowns
                                     /\ pool'[p].state = pool[p].state]_vars

\* a handle given a pool has failed a call and called close(), its flag is
\* False and the pool is open
C16_Witness ==
    \E t \in Tasks :
        /\ call[t].pc = "done"
        /\ call[t].outcome.raised
        /\ call[t].h # ""
        /\ Borrowed(call[t].h)
        /\ ~should_close[call[t].h]
        /\ closes[call[t].h] >= 1
        /\ pool[client[call[t].h]].state = "open"

\* C17 (as claimed): the status failure is raised only for status >= 400; a
\* response with any status below 400 (1xx and 3xx too) goes on to body
\* parsing and never ends in the status failure.
C17_StatusErrorOnlyFrom400 ==
    \A t \in Tasks :
        (Received(t) /\ call[t].inner.raised /\ IsStatusError(call[t].inner.exc))
            => call[t].response.status_code >= 400

\* C18 (as claimed): route_turn answered with a status below 400 and a body
\* that is valid JSON without the required "type", or with a "payload" that
\* is no object, raises the decode failure and returns no value.
C18_NonConformingIsDecodeError ==
    \A t \in Tasks :
        (Received(t) /\ call[t].op = "route_turn"
             /\ call[t].response.status_code < 400
             /\ call[t].response.text \in {MissingTypeBody, ListPayloadBody})
            => /\ call[t].outcome.raised
               /\ IsDecodeError(call[t].outcome.exc)


\* C19: the body excerpt in the message of the status failure is exactly the
\* first min(200, length of the body) characters of the response body: a
\* prefix of the body, never longer than 200, for bodies shorter than, as
\* long as and longer than 200 characters.
C19_ExcerptIsFirst200 ==
    \A t \in Tasks :
        (Received(t) /\ call[t].inner.raised /\ IsStatusError(call[t].inner.exc))
            => LET excerpt == call[t].outcome.exc.message.text
                   body == call[t].response.text
               IN /\ Len(excerpt) = (IF Len(body) < 200 THEN Len(body) ELSE 200)
                  /\ Len(excerpt) <= 200
                  /\ \A i \in 1..Len(excerpt) : excerpt[i] = body[i]

\* a status failure for a body of 201 characters holds its first 200
C19_Witness ==
    \E t \in Tasks :
        /\ Received(t)
        /\ IsStatusError(call[t].outcome.exc)
        /\ Len(call[t].response.text) = 201
        /\ Len(call[t].outcome.exc.message.text) = 200
        /\ call[t].outcome.exc.message.text[1] = "a"


\* C20: when the awaited post always ends, by a response or by a network
\* error such as the pool's timeout, every operation that has sent its
\* request eventually returns or raises to its caller.
C20_EveryCallCompletes ==
    \A t \in Tasks : (call[t].pc = "dispatch") ~> (call[t].pc = "done")

\* a call that waited for its response has completed with a timeout
C20_Witness ==
    \E t \in Tasks :
        /\ call[t].pc = "done"
        /\ call[t].stage = "dispatch"
        /\ call[t].inner.exc = ReadTimeout
        /\ call[t].outcome.raised


\* C21: once a task has been resumed with the response of its post, every
\* step until its operation has returned or raised is a step of that task:
\* no other task moves, no close() runs, no pool changes. The awaited post
\* is the only point of an operation where other tasks interleave.
C21_NoInterleavingAfterResponse ==
    [][\A t \in Concurrent :
          Handling(t)
              => /\ call'[t].pc = "done"
                 /\ \A u \in Concurrent \ {t} : call'[u] = call[u]
                 /\ pool' = pool
                 /\ closes' = closes]_vars

\* a task handles its response while the other task waits for its own
C21_Witness ==
    \E t \in Concurrent, u \in Concurrent :
        /\ t # u
        /\ Handling(t)
        /\ call[t].op = "route_turn"
        /\ call[u].pc = "dispatch"


\* C22: no step of post_event, control_audio or route_turn changes the
\* open/closed state of any pool, whether the call returns a value or
\* raises any error; while no close() has been called, the pool of a handle
\* whose call has failed is open, so the handle can send further requests.
C22_OperationsLeavePoolOpen ==
    /\ [][call' # call
             => \A p \in Pools : /\ pool'[p].state = pool[p].state
                                 /\ pool'[p].teardowns = pool[p].teardowns]_vars
    /\ [](\A t \in Tasks :
              (call[t].pc = "done" /\ call[t].outcome.raised /\ TotalCloses = 0)
                  => pool[client[call[t].h]].state = "open")

\* a handle's second request has failed with a network error, after its
\* first request had ended, and its pool is open
C22_Witness ==
    \E t \in Tasks :
        /\ call[t].pc = "done"
        /\ call[t].stage = "dispatch"
        /\ call[t].inner.exc \in RequestErrors
        /\ TotalCloses = 0
        /\ pool[client[call[t].h]].requests = 2
        /\ pool[client[call[t].h]].state = "open"


\* C23 (as claimed): every request a service client sends is addressed to
\* that client's own base_url joined with the path of the operation, when
\* the client created its pool and when it was given one.
C23_RequestGoesToOwnBaseUrl ==
    \A t \in Tasks :
        call[t].pc = "dispatch"
            => call[t].url = MergeUrl(BaseUrl(call[t].h), call[t].path)


\* C24: after close() has closed the pool a handle created, every later
\* post_event, control_audio with a valid action or route_turn on that
\* handle ends at once by raising the library's APIError to the caller,
\* sends no request and leaves every pool as it is; a closed pool never
\* opens again.
C24_CallAfterCloseFails ==
    /\ [][\A t \in Tasks :
             (/\ call[t].pc = "idle"
              /\ call'[t].pc # "idle"
              /\ call'[t].stage # "validate"
              /\ ~Borrowed(call'[t].h)
              /\ pool[call'[t].h].state = "closed")
                 => /\ call'[t].pc = "done"
                    /\ call'[t].outcome.raised
                    /\ call'[t].outcome.exc.cls = "APIError"
                    /\ call'[t].outcome.exc.cause = "RuntimeError"
                    /\ pool' = pool]_vars
    /\ [][\A p \in Pools : pool[p].state = "closed" => pool'[p].state = "closed"]_vars

\* a handle that sent a request and then closed its pool has had a later
\* call refused
C24_Witness ==
    \E t \in Tasks :
        /\ call[t].pc = "done"
        /\ call[t].stage = "dispatch"
        /\ call[t].inner.exc = ClientClosedError
        /\ call[t].outcome.exc.cls = "APIError"
        /\ ~Borrowed(call[t].h)
        /\ closes[call[t].h] >= 1
        /\ pool[call[t].h].state = "closed"
        /\ pool[call[t].h].requests = 1

====
